---------------------------- MODULE Spec2Model ----------------------------
(***************************************************************************)
(* Model of the list pagination of the blog front-end                      *)
(* (src/components/Pagination.js, rendered by src/pages/page/[page].js and *)
(* by the index page).  The component receives the props page, showNext    *)
(* and totalPages, keeps the text of the jump input in jumpPage, and on    *)
(* every render computes the page markers with generatePages().            *)
(***************************************************************************)
EXTENDS Integers, Sequences, FiniteSets, TLC

\* ------------------------------------------------------------------ bounds
\* Largest number of pages of the blog that is explored.
MaxTotal == 20

\* How far outside 0..MaxTotal the page of a requested route may lie.
RouteMargin == 2

\* --------------------------------------------------------------- constants
\* const maxVisiblePages = 7
maxVisiblePages == 7

\* ----------------------------------------------------------------- markers
\* A marker pushed on `pages` is a number or the string '...'.  The two kinds
\* are kept apart as records with different fields.
Ellipsis == [ellipsis |-> "..."]

PageMarker(n) == [page |-> n]

IsEllipsis(m) == "ellipsis" \in DOMAIN m

IsPage(m) == "page" \in DOMAIN m

Max(a, b) == IF a >= b THEN a ELSE b

Min(a, b) == IF a <= b THEN a ELSE b

\* Math.floor(a / b) for b > 0 (\div rounds towards minus infinity, as floor).
Floor(a, b) == a \div b

\* ------------------------------------------------------------ text <-> int
\* The value of the jump input is a string; it is modelled as the sequence of
\* its characters.
DigitChars == <<"0", "1", "2", "3", "4", "5", "6", "7", "8", "9">>

IsDigit(c) == \E d \in 1..10 : DigitChars[d] = c

DigitValue(c) == (CHOOSE d \in 1..10 : DigitChars[d] = c) - 1

\* Number.prototype.toString for n >= 0
RECURSIVE ToText(_)
ToText(n) == IF n < 10 THEN <<DigitChars[n + 1]>>
             ELSE Append(ToText(n \div 10), DigitChars[(n % 10) + 1])

\* parseInt(text): leading white space is skipped, an optional sign is read,
\* then the longest run of decimal digits; the rest of the text is ignored.
\* Without a digit the result is NaN.
RECURSIVE SkipSpaces(_)
SkipSpaces(s) == IF s # <<>> /\ Head(s) = " " THEN SkipSpaces(Tail(s)) ELSE s

RECURSIVE ReadDigits(_, _)
ReadDigits(s, acc) ==
    IF s # <<>> /\ IsDigit(Head(s))
    THEN ReadDigits(Tail(s), acc * 10 + DigitValue(Head(s)))
    ELSE acc

parseInt(text) ==
    LET s0   == SkipSpaces(text)
        neg  == s0 # <<>> /\ Head(s0) = "-"
        s1   == IF s0 # <<>> /\ Head(s0) \in {"-", "+"} THEN Tail(s0) ELSE s0
        mag  == ReadDigits(s1, 0)
    IN  IF s1 # <<>> /\ IsDigit(Head(s1))
        THEN [isNaN |-> FALSE, value |-> IF neg THEN 0 - mag ELSE mag]
        ELSE [isNaN |-> TRUE, value |-> 0]

\* -------------------------------------------------------- generatePages()
\* const calculatedTotalPages = totalPages || (showNext ? currentPage + 1 : currentPage)
calculatedTotalPages(total, next, cur) ==
    IF total # 0 THEN total ELSE IF next THEN cur + 1 ELSE cur

\* Faulty variants of initialStartPage: half of the window without the
\* first and last page; the half rounded up.
initialStartPage_InnerHalf(cur) == Max(1, cur - Floor(maxVisiblePages - 2, 2))

initialStartPage_CeilHalf(cur) == Max(1, cur - (Floor(maxVisiblePages, 2) + 1))

\* let startPage = Math.max(1, currentPage - Math.floor(maxVisiblePages / 2))
initialStartPage(cur) == Max(1, cur - Floor(maxVisiblePages, 2))

\* Faulty variants of initialEndPage: the window is one page too long; the
\* window is not cut at the last page.
initialEndPage_OffByOne(total, start) == Min(total, start + maxVisiblePages)

initialEndPage_NotCut(total, start) == start + maxVisiblePages - 1

\* let endPage = Math.min(calculatedTotalPages, startPage + maxVisiblePages - 1)
initialEndPage(total, start) == Min(total, start + maxVisiblePages - 1)

\* Faulty variants of adjustStartPage: the slid start is not clamped to 1;
\* the window is not slid at all.
adjustStartPage_NoClamp(start, end) ==
    IF end - start + 1 < maxVisiblePages
    THEN end - maxVisiblePages + 1
    ELSE start

adjustStartPage_NoSlide(start, end) == start

\* if (endPage - startPage + 1 < maxVisiblePages) startPage = Math.max(1, endPage - maxVisiblePages + 1)
adjustStartPage(start, end) ==
    IF end - start + 1 < maxVisiblePages
    THEN Max(1, end - maxVisiblePages + 1)
    ELSE start

\* Faulty variants of leadingMarkers: the ellipsis is pushed whenever page 1
\* is (startPage > 1 in place of startPage > 2); page 1 is pushed without the
\* outer check; the ellipsis is pushed only from startPage > 3.
leadingMarkers_EllipsisAfterFirst(ps, start) ==
    IF start > 1
    THEN Append(Append(ps, PageMarker(1)), Ellipsis)
    ELSE ps

leadingMarkers_AlwaysFirst(ps, start) ==
    LET p1 == Append(ps, PageMarker(1))
    IN  IF start > 2 THEN Append(p1, Ellipsis) ELSE p1

leadingMarkers_EllipsisLate(ps, start) ==
    IF start > 1
    THEN LET p1 == Append(ps, PageMarker(1))
         IN  IF start > 3 THEN Append(p1, Ellipsis) ELSE p1
    ELSE ps

\* if (startPage > 1) { pages.push(1); if (startPage > 2) pages.push('...') }
leadingMarkers(ps, start) ==
    IF start > 1
    THEN LET p1 == Append(ps, PageMarker(1))
         IN  IF start > 2 THEN Append(p1, Ellipsis) ELSE p1
    ELSE ps

\* for (let i = startPage; i <= endPage; i++) pages.push(i)
RECURSIVE visiblePages(_, _, _)
visiblePages(ps, i, end) ==
    IF i <= end THEN visiblePages(Append(ps, PageMarker(i)), i + 1, end) ELSE ps

\* Faulty variants of trailingMarkers: the last page is pushed inside the
\* inner check only; the ellipsis is pushed by the outer and by the inner check.
trailingMarkers_LastInsideInner(ps, end, total) ==
    IF end < total
    THEN IF end < total - 1 THEN Append(Append(ps, Ellipsis), PageMarker(total)) ELSE ps
    ELSE ps

trailingMarkers_EllipsisTwice(ps, end, total) ==
    IF end < total
    THEN LET p0 == Append(ps, Ellipsis)
             p1 == IF end < total - 1 THEN Append(p0, Ellipsis) ELSE p0
         IN  Append(p1, PageMarker(total))
    ELSE ps

\* if (endPage < total) { if (endPage < total - 1) pages.push('...'); pages.push(total) }
trailingMarkers(ps, end, total) ==
    IF end < total
    THEN LET p1 == IF end < total - 1 THEN Append(ps, Ellipsis) ELSE ps
         IN  Append(p1, PageMarker(total))
    ELSE ps

\* generatePages: the final values of startPage, endPage and pages
generatePages(cur, total) ==
    LET start0 == initialStartPage(cur)
        end    == initialEndPage(total, start0)
        start  == adjustStartPage(start0, end)
        p1     == leadingMarkers(<<>>, start)
        p2     == visiblePages(p1, start, end)
        p3     == trailingMarkers(p2, end, total)
    IN  [startPage |-> start, endPage |-> end, pages |-> p3]

\* ------------------------------------------------------------------- state
VARIABLES
    location,      \* the route shown: the index page or /page/[page]
    currentPage,   \* +page
    totalPages,    \* the totalPages prop
    showNext,      \* the showNext prop
    jumpPage,      \* useState(''): text of the jump input
    startPage,     \* generatePages: startPage at the return
    endPage,       \* generatePages: endPage at the return
    pages,         \* const pages = generatePages()
    error          \* the error thrown by the last render or handler, if any

listVars == <<location, currentPage, totalPages, showNext, jumpPage,
              startPage, endPage, pages, error>>

\* The search page (src/components/Search/SearchBox.tsx, CustomPagination)
VARIABLES
    currentRefinement,  \* usePagination(): the current page of the results, 0-indexed
    nbPages,            \* usePagination(): the number of result pages
    searchPages         \* the memoized pagesArray

searchVars == <<currentRefinement, nbPages, searchPages>>

\* The indexing script (src/scripts/index-algolia.js, main)
VARIABLES
    scriptPc,      \* the statement of main() that runs next
    scriptArgs,    \* shouldClear, dryRun, showStats
    scriptPosts,   \* const posts = await fetchAllPosts()
    indexCalls,    \* the calls made on the Algolia index, in order
    exitCode       \* the text of the code of process.exit(code), or the end of main()

scriptVars == <<scriptPc, scriptArgs, scriptPosts, indexCalls, exitCode>>

\* The table of contents of a post (src/components/TableOfContents.js with
\* src/lib/hooks/useScrollSpy.js)
VARIABLES
    tocNodes,      \* const nodes: the headings of the post, in order
    domHeadings,   \* the headings whose element is in the document
    headingIds,    \* useState([]): the ids given to useScrollSpy
    spyObserved,   \* the ids of the elements the observer observes
    spyQueued,     \* the entries the observer has queued for its callback
    activeId       \* useState(null)

spyVars == <<tocNodes, domHeadings, headingIds, spyObserved, spyQueued, activeId>>

\* The reading progress bar of a post
\* (src/components/ReadingProgress/ReadingProgress.tsx)
VARIABLES
    progressMounted,     \* the component is mounted and listens to scroll events
    scrollY,             \* window.scrollY
    docHeight,           \* document.documentElement.scrollHeight - window.innerHeight
    progress,            \* useState(0)
    ticking,             \* let ticking = false
    pendingFrames,       \* the callbacks given to requestAnimationFrame that have not run
    scrolledSinceUpdate  \* onScroll has run since updateProgress last ran

progressVars == <<progressMounted, scrollY, docHeight, progress, ticking,
                  pendingFrames, scrolledSinceUpdate>>

\* The theme of the application (src/lib/theme.js, ThemeProvider)
VARIABLES
    themePhase,      \* "unmounted", "rendered" (before the effects) or "mounted"
    appearance,      \* useConfig().appearance
    themeStored,     \* localStorage.getItem('theme-preference'), "null" when absent
    dark,            \* useState(...): the dark flag
    themeToggledTo,  \* the theme the last toggleTheme call changed to, "none" before
    themeMounts      \* the number of times the provider was mounted

themeVars == <<themePhase, appearance, themeStored, dark, themeToggledTo, themeMounts>>

\* One debounced function (src/lib/theme.js, debounce)
VARIABLES
    delay,           \* the delay parameter, in time units
    clock,           \* the time now
    timeoutId,       \* let timeoutId, 0 while undefined
    timers,          \* the timers set by setTimeout that have neither run nor been cleared
    nextTimerId,     \* the id the next setTimeout returns
    debouncedCalls,  \* the calls of the debounced function so far: time and arguments
    funcCalls        \* the calls of func so far: time and arguments

debounceVars == <<delay, clock, timeoutId, timers, nextTimerId, debouncedCalls, funcCalls>>

\* The search input with suggestions
\* (src/components/Search/SearchBox.tsx, SearchAutocomplete)
VARIABLES
    query,            \* useState(''): the text of the input, as characters
    suggestions,      \* useState([])
    showSuggestions,  \* useState(false)
    searchesInFlight, \* the index.search calls that have not settled
    inputChanges      \* the number of handleInputChange calls so far

suggestVars == <<query, suggestions, showSuggestions, searchesInFlight, inputChanges>>

\* The static generation of the list pages (getStaticProps of the index page
\* and of src/pages/page/[page].js)
VARIABLES
    allPosts,      \* const posts = await getAllPosts({ includePages: false })
    postsPerPage,  \* config.postsPerPage
    staticProps    \* the props returned so far, with the page they were returned for

buildVars == <<allPosts, postsPerPage, staticProps>>

\* The widgets of a page and the generation of the list pages
widgetVars == <<progressVars, themeVars, debounceVars, suggestVars, buildVars>>

\* The variables of the other parts of the application
otherThanList == <<searchVars, scriptVars, spyVars, widgetVars>>

vars == <<listVars, searchVars, scriptVars, spyVars, widgetVars>>

\* The search page is not shown
SearchIdle ==
    /\ currentRefinement = 0
    /\ nbPages = 0
    /\ searchPages = <<>>

\* The script has not been started
ScriptIdle ==
    /\ scriptPc = "idle"
    /\ scriptArgs = [shouldClear |-> FALSE, dryRun |-> FALSE, showStats |-> FALSE]
    /\ scriptPosts = <<>>
    /\ indexCalls = <<>>
    /\ exitCode = "none"

\* The heading ids are modelled by the position of the heading in the post
\* (1, 2, ...); useState(null) is modelled by 0, which is no heading
NullId == 0

\* No post is shown
SpyIdle ==
    /\ tocNodes = <<>>
    /\ domHeadings = {}
    /\ headingIds = <<>>
    /\ spyObserved = {}
    /\ spyQueued = <<>>
    /\ activeId = NullId

\* No reading progress bar is shown
ProgressIdle ==
    /\ progressMounted = FALSE
    /\ scrollY = 0
    /\ docHeight = 1
    /\ progress = 0
    /\ ticking = FALSE
    /\ pendingFrames = 0
    /\ scrolledSinceUpdate = FALSE

\* The theme provider is not mounted
ThemeIdle ==
    /\ themePhase = "unmounted"
    /\ appearance = "auto"
    /\ themeStored = "null"
    /\ dark = TRUE
    /\ themeToggledTo = "none"
    /\ themeMounts = 0

\* No debounced function has been made
DebounceIdle ==
    /\ delay = 0
    /\ clock = 0
    /\ timeoutId = 0
    /\ timers = {}
    /\ nextTimerId = 1
    /\ debouncedCalls = <<>>
    /\ funcCalls = <<>>

\* The search input is not shown
SuggestIdle ==
    /\ query = <<>>
    /\ suggestions = <<>>
    /\ showSuggestions = FALSE
    /\ searchesInFlight = {}
    /\ inputChanges = 0

\* No page has been generated
BuildIdle ==
    /\ allPosts = <<>>
    /\ postsPerPage = 1
    /\ staticProps = {}

\* No widget is shown and no page has been generated
WidgetsIdle == ProgressIdle /\ ThemeIdle /\ DebounceIdle /\ SuggestIdle /\ BuildIdle

\* The state of the other parts while the list page is shown
OthersIdle == SearchIdle /\ ScriptIdle /\ SpyIdle /\ WidgetsIdle

\* Neither generatePages nor handleJump has a throw statement
NoError == "none"

\* One render of the component with the given props: pages = generatePages()
Render(cur, total, next) ==
    LET g == generatePages(cur, calculatedTotalPages(total, next, cur))
    IN  /\ startPage' = g.startPage
        /\ endPage' = g.endPage
        /\ pages' = g.pages
        /\ error' = NoError

\* getStaticProps: showNext = page * postsPerPage < totalPosts, which for
\* totalPages = ceil(totalPosts / postsPerPage) is page < totalPages
ShowNextOf(cur, total) == cur < total

\* The index page (BLOG.path || '/') renders Pagination with page: 1
IndexRoute == [route |-> "index", page |-> 1]

\* /page/[page] renders Pagination with the page of the route
PageRoute(n) == [route |-> "page", page |-> n]

\* pageNum === 1 ? `${BLOG.path || '/'}` : `/page/${pageNum}`
\* Faulty variant of hrefOf: the first page too is linked as /page/1.
hrefOf_PageOne(n) == PageRoute(n)

hrefOf(n) == IF n = 1 THEN IndexRoute ELSE PageRoute(n)

\* getStaticPaths: Array.from({ length: totalPages - 1 },
\* (_, i) => ({ params: { page: '' + (i + 2) } }))
staticPaths(total) == {PageRoute(i + 2) : i \in 0..(total - 2)}

\* The first render of the route loc of a blog with `total` pages
Mount(loc, total) ==
    /\ location = loc
    /\ totalPages = total
    /\ currentPage = loc.page
    /\ showNext = ShowNextOf(loc.page, total)
    /\ jumpPage = <<>>
    /\ LET g == generatePages(loc.page,
                              calculatedTotalPages(total, ShowNextOf(loc.page, total), loc.page))
       IN  /\ startPage = g.startPage
           /\ endPage = g.endPage
           /\ pages = g.pages
    /\ error = NoError

\* The page routes: the index page renders page 1, and getStaticPaths
\* generates /page/2 .. /page/totalPages.
Init ==
    /\ \E total \in 1..MaxTotal :
          \E loc \in {IndexRoute} \cup {PageRoute(n) : n \in 2..total} :
              Mount(loc, total)
    /\ OthersIdle

\* A navigation loads the route loc: the index page or /page/[page] renders
\* Pagination with the page of the route; totalPages does not change (the
\* posts are the same) and showNext is recomputed by getStaticProps.
\* The text of the jump input is component state: it is lost when the
\* component is mounted anew (a document load, or a change between the index
\* page and /page/[page]) and kept by a client-side transition that stays on
\* /page/[page].
LoadPage(loc, keepInput) ==
    /\ location' = loc
    /\ currentPage' = loc.page
    /\ totalPages' = totalPages
    /\ showNext' = ShowNextOf(loc.page, totalPages)
    /\ jumpPage' = IF keepInput THEN jumpPage ELSE <<>>
    /\ Render(loc.page, totalPages, ShowNextOf(loc.page, totalPages))
    /\ UNCHANGED otherThanList

\* <Link href={...}>: a client-side transition to loc
FollowLink(loc) == LoadPage(loc, loc.route = location.route)

\* <Link href={pageNum === 1 ? BLOG.path || '/' : `/page/${pageNum}`}>: a
\* numeric marker other than the current page is a link to that page.
ClickPage ==
    \E i \in 1..Len(pages) :
        /\ ~IsEllipsis(pages[i])
        /\ pages[i].page # currentPage
        /\ FollowLink(hrefOf(pages[i].page))

\* {currentPage > 1 ? <Link href={currentPage - 1 === 1 ? ... : `/page/${currentPage - 1}`}> : <span>}
\* Faulty variant of previousOffered: the first page too has a previous link.
previousOffered_OnFirstPage == currentPage >= 1

\* currentPage > 1 ? <Link> : <span>
previousOffered == currentPage > 1

ClickPrevious ==
    /\ previousOffered
    /\ FollowLink(IF currentPage - 1 = 1 THEN IndexRoute ELSE PageRoute(currentPage - 1))

\* {currentPage < calculatedTotalPages ? <Link href={`/page/${currentPage + 1}`}> : <span>}
\* Faulty variant of nextOffered: the last page too has a next link.
nextOffered_OnLastPage ==
    currentPage <= calculatedTotalPages(totalPages, showNext, currentPage)

\* currentPage < calculatedTotalPages ? <Link> : <span>
nextOffered == currentPage < calculatedTotalPages(totalPages, showNext, currentPage)

ClickNext ==
    /\ nextOffered
    /\ FollowLink(PageRoute(currentPage + 1))

\* Texts typed into the jump input.
JumpTexts ==
    {ToText(n) : n \in 0..(MaxTotal + 1)}
        \cup {<<>>, <<"a", "b", "c">>, <<"3", "a", "b", "c">>, <<"2", ".", "7">>,
              <<"-", "1">>, <<" ", "4">>, <<"1", "e", "1">>}

\* onChange={(e) => setJumpPage(e.target.value)}: the state changes and the
\* component renders again.
SetJumpPage ==
    \E text \in JumpTexts :
        /\ text # jumpPage
        /\ jumpPage' = text
        /\ UNCHANGED <<location, currentPage, totalPages, showNext>>
        /\ Render(currentPage, totalPages, showNext)
        /\ UNCHANGED otherThanList

\* Faulty variants of jumpAccepted: the upper bound is not checked; the lower
\* bound is not checked.
jumpAccepted_NoUpperBound(text, total) ==
    LET pageNum == parseInt(text)
    IN  /\ ~pageNum.isNaN
        /\ pageNum.value # 0
        /\ pageNum.value >= 1

jumpAccepted_NoLowerBound(text, total) ==
    LET pageNum == parseInt(text)
    IN  /\ ~pageNum.isNaN
        /\ pageNum.value <= total

\* handleJump: const pageNum = parseInt(jumpPage);
\* if (pageNum && pageNum >= 1 && pageNum <= calculatedTotalPages) window.location.href = ...
jumpAccepted(text, total) ==
    LET pageNum == parseInt(text)
    IN  /\ ~pageNum.isNaN
        /\ pageNum.value # 0
        /\ pageNum.value >= 1
        /\ pageNum.value <= total

\* window.location.href = ... loads the document of the route
HandleJump ==
    IF jumpAccepted(jumpPage, calculatedTotalPages(totalPages, showNext, currentPage))
    THEN LoadPage(hrefOf(parseInt(jumpPage).value), FALSE)
    ELSE UNCHANGED vars

Next ==
    \/ HandleJump
    \/ ClickPage
    \/ ClickPrevious
    \/ ClickNext
    \/ SetJumpPage

Spec == Init /\ [][Next]_vars

\* ----------------------------------------------- any value of the page route
\* /page/[page] is served with fallback: true, so getStaticProps also runs for
\* a page parameter that getStaticPaths did not generate, and a blog may have
\* no post at all (totalPages = 0).
RoutePages == (0 - RouteMargin)..(MaxTotal + RouteMargin)

InitAnyRoute ==
    /\ \E total \in 0..MaxTotal :
          \E loc \in {IndexRoute} \cup {PageRoute(n) : n \in RoutePages} :
              Mount(loc, total)
    /\ OthersIdle

SpecAnyRoute == InitAnyRoute /\ [][Next]_vars


\* -------------------------------------------- search page: CustomPagination
\* Largest number of result pages that is explored.
MaxNbPages == 15

\* const maxPagesToShow = 5
maxPagesToShow == 5

\* let startPage = Math.max(0, currentRefinement - Math.floor(maxPagesToShow / 2))
searchInitialStart(cur) == Max(0, cur - Floor(maxPagesToShow, 2))

\* let endPage = Math.min(nbPages - 1, startPage + maxPagesToShow - 1)
searchInitialEnd(nb, start) == Min(nb - 1, start + maxPagesToShow - 1)

\* Faulty variant of searchAdjustStart: the window is not slid.
searchAdjustStart_NoSlide(start, end) == start

\* if (endPage - startPage < maxPagesToShow - 1) startPage = Math.max(0, endPage - maxPagesToShow + 1)
searchAdjustStart(start, end) ==
    IF end - start < maxPagesToShow - 1
    THEN Max(0, end - maxPagesToShow + 1)
    ELSE start

\* for (let i = startPage; i <= endPage; i++) pagesArray.push(i)
RECURSIVE searchVisible(_, _, _)
searchVisible(ps, i, end) ==
    IF i <= end THEN searchVisible(Append(ps, i), i + 1, end) ELSE ps

\* useMemo(() => { ... return pagesArray }, [currentRefinement, nbPages])
searchPagesArray(cur, nb) ==
    LET start0 == searchInitialStart(cur)
        end    == searchInitialEnd(nb, start0)
        start  == searchAdjustStart(start0, end)
    IN  searchVisible(<<>>, start, end)

\* if (nbPages <= 1) return null
searchShown == nbPages > 1

\* The list page is not shown
ListIdle == Mount(IndexRoute, 1)

\* The results of a query: nb pages, shown from page cur
SearchMount(cur, nb) ==
    /\ currentRefinement = cur
    /\ nbPages = nb
    /\ searchPages = searchPagesArray(cur, nb)

InitSearch ==
    /\ \E nb \in 0..MaxNbPages :
          \E cur \in 0..Max(0, nb - 1) : SearchMount(cur, nb)
    /\ ListIdle
    /\ ScriptIdle
    /\ SpyIdle
    /\ WidgetsIdle

\* refine(page): the results are shown from that page and the component
\* renders again
Refine(page) ==
    /\ currentRefinement' = page
    /\ nbPages' = nbPages
    /\ searchPages' = searchPagesArray(page, nbPages)
    /\ UNCHANGED <<listVars, scriptVars, spyVars, widgetVars>>

\* onClick={() => refine(page)} of a page button
SearchClickPage ==
    /\ searchShown
    /\ \E i \in 1..Len(searchPages) : Refine(searchPages[i])

\* onClick={() => refine(currentRefinement - 1)}, disabled={currentRefinement === 0}
SearchClickPrevious ==
    /\ searchShown
    /\ ~(currentRefinement = 0)
    /\ Refine(currentRefinement - 1)

\* onClick={() => refine(currentRefinement + 1)}, disabled={currentRefinement === nbPages - 1}
SearchClickNext ==
    /\ searchShown
    /\ ~(currentRefinement = nbPages - 1)
    /\ Refine(currentRefinement + 1)

\* A new query: another number of result pages, shown from the first page
SearchNewResults ==
    \E nb \in 0..MaxNbPages :
        /\ nb # nbPages
        /\ currentRefinement' = 0
        /\ nbPages' = nb
        /\ searchPages' = searchPagesArray(0, nb)
        /\ UNCHANGED <<listVars, scriptVars, spyVars, widgetVars>>

NextSearch ==
    \/ SearchClickPage
    \/ SearchClickPrevious
    \/ SearchClickNext
    \/ SearchNewResults

SpecSearch == InitSearch /\ [][NextSearch]_vars

\* --------------------------------------- indexing script: index-algolia.js
\* Largest number of posts fetched that is explored.
MaxPosts == 3

\* A post is modelled by whether convertPostToAlgoliaObject converts it (TRUE)
\* or returns null for it (FALSE).
RECURSIVE PostLists(_)
PostLists(n) ==
    IF n = 0 THEN {<<>>}
    ELSE PostLists(n - 1) \cup {Append(l, c) : l \in {k \in PostLists(n - 1) : Len(k) = n - 1},
                                               c \in BOOLEAN}

\* posts.map(post => convertPostToAlgoliaObject(post)).filter(Boolean)
convertedObjects(posts) == SelectSeq(posts, LAMBDA converts : converts)

\* const args = process.argv.slice(2): the three flags read from it
ArgFlags == [shouldClear : BOOLEAN, dryRun : BOOLEAN, showStats : BOOLEAN]

\* main() is about to run with some command line
InitScript ==
    /\ scriptPc = "main"
    /\ scriptArgs \in ArgFlags
    /\ scriptPosts = <<>>
    /\ indexCalls = <<>>
    /\ exitCode = "none"
    /\ ListIdle
    /\ SearchIdle
    /\ SpyIdle
    /\ WidgetsIdle

ScriptFrame == UNCHANGED <<listVars, searchVars, spyVars, widgetVars>>

\* process.exit(code)
Exit(code) ==
    /\ scriptPc' = "exited"
    /\ exitCode' = code

\* if (showStats) { await getIndexStats(); return }
MainStart ==
    /\ scriptPc = "main"
    /\ scriptPc' = IF scriptArgs.showStats THEN "getSettings" ELSE "fetch"
    /\ UNCHANGED <<scriptArgs, scriptPosts, indexCalls, exitCode>>
    /\ ScriptFrame

\* getIndexStats: const stats = await index.getSettings(); a failure is
\* caught, null is returned and main returns
StatsGetSettings ==
    /\ scriptPc = "getSettings"
    /\ indexCalls' = Append(indexCalls, "getSettings")
    /\ \/ /\ scriptPc' = "browseObjects"
          /\ exitCode' = exitCode
       \/ Exit("returned")
    /\ UNCHANGED <<scriptArgs, scriptPosts>>
    /\ ScriptFrame

\* getIndexStats: const objects = await index.browseObjects(); then main returns
StatsBrowseObjects ==
    /\ scriptPc = "browseObjects"
    /\ indexCalls' = Append(indexCalls, "browseObjects")
    /\ Exit("returned")
    /\ UNCHANGED <<scriptArgs, scriptPosts>>
    /\ ScriptFrame

\* Faulty variant of clearRequested: --clear is obeyed in a dry run too.
clearRequested_IgnoresDryRun(args) == args.shouldClear

\* if (shouldClear && !dryRun)
clearRequested(args) == args.shouldClear /\ ~args.dryRun

\* The statement after the check of posts.length: clearIndex, indexPosts or
\* the report of the dry run
afterFetch(args) ==
    IF clearRequested(args) THEN "clear"
    ELSE IF ~args.dryRun THEN "index" ELSE "dryRunReport"

\* Faulty variant of noPostsToIndex: main goes on without posts.
noPostsToIndex_Never(posts) == FALSE

\* if (posts.length === 0)
noPostsToIndex(posts) == Len(posts) = 0

\* fetchAllPosts: the posts, or [] when there is none or getAllPosts fails;
\* main: if (posts.length === 0) process.exit(1)
FetchAllPosts ==
    /\ scriptPc = "fetch"
    /\ \E posts \in PostLists(MaxPosts) :
          /\ scriptPosts' = posts
          /\ IF noPostsToIndex(posts)
             THEN Exit("1")
             ELSE /\ scriptPc' = afterFetch(scriptArgs)
                  /\ exitCode' = exitCode
    /\ UNCHANGED <<scriptArgs, indexCalls>>
    /\ ScriptFrame

\* clearIndex: await index.clearObjects(); a failure is thrown again and main
\* exits with 1
ClearIndex ==
    /\ scriptPc = "clear"
    /\ indexCalls' = Append(indexCalls, "clearObjects")
    /\ \/ /\ scriptPc' = IF ~scriptArgs.dryRun THEN "index" ELSE "dryRunReport"
          /\ exitCode' = exitCode
       \/ Exit("1")
    /\ UNCHANGED <<scriptArgs, scriptPosts>>
    /\ ScriptFrame

\* indexPosts: without a valid object it returns and main exits with 0;
\* otherwise await index.setSettings(INDEX_SETTINGS)
IndexSetSettings ==
    /\ scriptPc = "index"
    /\ IF Len(convertedObjects(scriptPosts)) = 0
       THEN /\ Exit("0")
            /\ indexCalls' = indexCalls
       ELSE /\ indexCalls' = Append(indexCalls, "setSettings")
            /\ \/ /\ scriptPc' = "saveObjects"
                  /\ exitCode' = exitCode
               \/ Exit("1")
    /\ UNCHANGED <<scriptArgs, scriptPosts>>
    /\ ScriptFrame

\* indexPosts: const { objectIDs } = await index.saveObjects(objects)
IndexSaveObjects ==
    /\ scriptPc = "saveObjects"
    /\ indexCalls' = Append(indexCalls, "saveObjects")
    /\ \/ /\ scriptPc' = "waitTask"
          /\ exitCode' = exitCode
       \/ Exit("1")
    /\ UNCHANGED <<scriptArgs, scriptPosts>>
    /\ ScriptFrame

\* indexPosts: await index.waitTask(objectIDs.length); then main exits with 0
IndexWaitTask ==
    /\ scriptPc = "waitTask"
    /\ indexCalls' = Append(indexCalls, "waitTask")
    /\ \/ Exit("0")
       \/ Exit("1")
    /\ UNCHANGED <<scriptArgs, scriptPosts>>
    /\ ScriptFrame

\* Dry run: the objects that would be indexed are listed, main exits with 0
DryRunReport ==
    /\ scriptPc = "dryRunReport"
    /\ Exit("0")
    /\ UNCHANGED <<scriptArgs, scriptPosts, indexCalls>>
    /\ ScriptFrame

NextScript ==
    \/ MainStart
    \/ StatsGetSettings
    \/ StatsBrowseObjects
    \/ FetchAllPosts
    \/ ClearIndex
    \/ IndexSetSettings
    \/ IndexSaveObjects
    \/ IndexWaitTask
    \/ DryRunReport

SpecScript == InitScript /\ [][NextScript]_vars

\* ------------------------------- table of contents: useScrollSpy(headingIds)
\* Largest number of headings of a post that is explored.
MaxHeadings == 3

\* Largest number of entries the observer queues before its callback runs.
MaxBatch == 2

\* A post with n headings, some of which have their element in the document;
\* TableOfContents starts with headingIds = [] and useScrollSpy with
\* activeId = null and an observer that observes nothing
InitSpy ==
    /\ \E n \in 0..MaxHeadings :
          /\ tocNodes = [i \in 1..n |-> i]
          /\ domHeadings \in SUBSET (1..n)
    /\ headingIds = <<>>
    /\ spyObserved = {}
    /\ spyQueued = <<>>
    /\ activeId = NullId
    /\ ListIdle
    /\ SearchIdle
    /\ ScriptIdle
    /\ WidgetsIdle

SpyFrame == UNCHANGED <<listVars, searchVars, scriptVars, widgetVars>>

\* useEffect of useScrollSpy: ids.forEach(id => { const element =
\* document.getElementById(id); if (element) currentObserver.observe(element) })
observedElements(ids, dom) == {ids[i] : i \in {j \in 1..Len(ids) : ids[j] \in dom}}

\* useEffect of TableOfContents: if (nodes.length > 0) setHeadingIds(ids);
\* the component renders again and the effect of useScrollSpy disconnects the
\* observer and observes the elements of the ids with a new one
SetHeadingIds ==
    /\ Len(tocNodes) > 0
    /\ headingIds' = tocNodes
    /\ spyObserved' = observedElements(tocNodes, domHeadings)
    /\ spyQueued' = <<>>
    /\ UNCHANGED <<tocNodes, domHeadings, activeId>>
    /\ SpyFrame

\* The browser sees an observed element enter or leave the root and queues an
\* entry for the callback
QueueEntry ==
    /\ Len(spyQueued) < MaxBatch
    /\ \E id \in spyObserved, intersecting \in BOOLEAN :
          spyQueued' = Append(spyQueued, [target |-> id, isIntersecting |-> intersecting])
    /\ UNCHANGED <<tocNodes, domHeadings, headingIds, spyObserved, activeId>>
    /\ SpyFrame

\* Faulty variant of firstIntersecting: the last intersecting entry is taken.
firstIntersecting_Last(entries) ==
    LET hits == {i \in 1..Len(entries) : entries[i].isIntersecting}
    IN  IF hits = {} THEN 0 ELSE CHOOSE i \in hits : \A j \in hits : j <= i

\* entries.find(entry => entry.isIntersecting): the position of the entry
\* found, 0 when find returns undefined
firstIntersecting(entries) ==
    LET hits == {i \in 1..Len(entries) : entries[i].isIntersecting}
    IN  IF hits = {} THEN 0 ELSE CHOOSE i \in hits : \A j \in hits : i <= j

\* observerCallback(entries): if (intersectingEntry) setActiveId(intersectingEntry.target.id);
\* after setActiveId the hook renders again and its effect observes the same
\* elements with a new observer
ObserverCallback ==
    /\ spyQueued # <<>>
    /\ LET found == firstIntersecting(spyQueued)
       IN  IF found # 0
           THEN /\ activeId' = spyQueued[found].target
                /\ spyObserved' = observedElements(headingIds, domHeadings)
           ELSE UNCHANGED <<activeId, spyObserved>>
    /\ spyQueued' = <<>>
    /\ UNCHANGED <<tocNodes, domHeadings, headingIds>>
    /\ SpyFrame

NextSpy ==
    \/ SetHeadingIds
    \/ QueueEntry
    \/ ObserverCallback

SpecSpy == InitSpy /\ [][NextSpy]_vars

\* The list page, the search page, the script and the table of contents are
\* not in use
AppIdle == ListIdle /\ SearchIdle /\ ScriptIdle /\ SpyIdle

\* ------------------------------------------------ ReadingProgress: onScroll
\* Largest scrollable height of a document that is explored, in pixels; the
\* heights explored divide 100, so that the percentage is an integer.
MaxDocHeight == 5

\* Pixels by which the window can be scrolled past either end of the document.
Overscroll == 1

\* Largest number of animation frame callbacks that can be pending.
MaxPending == 2

DocHeights == {d \in 1..MaxDocHeight : 100 % d = 0}

ScrollPositions(height) == (0 - Overscroll)..(height + Overscroll)

\* const scrolled = (scrollTop / docHeight) * 100
\* const clampedProgress = Math.min(Math.max(scrolled, 0), 100)
clampedProgress(scrollTop, height) ==
    Min(Max((scrollTop * 100) \div height, 0), 100)

\* The effect has run: updateProgress() was called once, onScroll listens,
\* ticking is false and no animation frame has been requested
InitProgress ==
    /\ progressMounted = TRUE
    /\ docHeight \in DocHeights
    /\ scrollY \in ScrollPositions(docHeight)
    /\ progress = clampedProgress(scrollY, docHeight)
    /\ ticking = FALSE
    /\ pendingFrames = 0
    /\ scrolledSinceUpdate = FALSE
    /\ AppIdle
    /\ ThemeIdle
    /\ DebounceIdle
    /\ SuggestIdle
    /\ BuildIdle

ProgressFrame == UNCHANGED <<listVars, searchVars, scriptVars, spyVars, themeVars,
                             debounceVars, suggestVars, buildVars>>

\* Faulty variant of frameNeeded: every scroll event requests a frame.
frameNeeded_Always(isTicking) == TRUE

\* if (!ticking)
frameNeeded(isTicking) == ~isTicking

\* The window is scrolled; while the component is mounted the scroll event
\* runs onScroll
ScrollEvent ==
    /\ pendingFrames < MaxPending
    /\ \E position \in ScrollPositions(docHeight) : scrollY' = position
    /\ IF progressMounted
       THEN /\ IF frameNeeded(ticking)
               THEN /\ pendingFrames' = pendingFrames + 1
                    /\ ticking' = TRUE
               ELSE UNCHANGED <<pendingFrames, ticking>>
            /\ scrolledSinceUpdate' = TRUE
       ELSE UNCHANGED <<pendingFrames, ticking, scrolledSinceUpdate>>
    /\ UNCHANGED <<progressMounted, docHeight, progress>>
    /\ ProgressFrame

\* The browser runs a callback given to requestAnimationFrame:
\* updateProgress(); ticking = false. React drops setProgress of a component
\* that was unmounted
AnimationFrame ==
    /\ pendingFrames > 0
    /\ pendingFrames' = pendingFrames - 1
    /\ progress' = IF progressMounted
                   THEN clampedProgress(scrollY, docHeight)
                   ELSE progress
    /\ ticking' = FALSE
    /\ scrolledSinceUpdate' = FALSE
    /\ UNCHANGED <<progressMounted, scrollY, docHeight>>
    /\ ProgressFrame

\* The cleanup of the effect: window.removeEventListener('scroll', onScroll);
\* a requested animation frame is not cancelled
ProgressUnmount ==
    /\ progressMounted
    /\ progressMounted' = FALSE
    /\ UNCHANGED <<scrollY, docHeight, progress, ticking, pendingFrames,
                   scrolledSinceUpdate>>
    /\ ProgressFrame

NextProgress ==
    \/ ScrollEvent
    \/ AnimationFrame
    \/ ProgressUnmount

\* The browser runs every requested animation frame callback
SpecProgress == InitProgress /\ [][NextProgress]_vars /\ WF_vars(AnimationFrame)

\* ------------------------------------------------- ThemeProvider: toggleTheme
\* Largest number of mounts of the provider that is explored.
MaxMounts == 3

\* appearance: 'light' | 'dark' | 'auto' (src/types/index.ts)
Appearances == {"light", "dark", "auto"}

\* What localStorage can hold under 'theme-preference' before the first
\* mount: nothing, a theme, or a value that is no theme
StoredValues == {"null", "light", "dark", "system"}

\* newDark ? 'dark' : 'light'
themeName(isDark) == IF isDark THEN "dark" ELSE "light"

\* useState(() => { if (appearance === 'dark') return true;
\* if (appearance === 'light') return false; return true })
initialDark(config) ==
    IF config = "dark" THEN TRUE
    ELSE IF config = "light" THEN FALSE
    ELSE TRUE

\* Faulty variant of loadedDark: the configured appearance is used first.
loadedDark_ConfigFirst(savedTheme, config, isDark) ==
    IF config = "light" \/ config = "dark"
    THEN config = "dark"
    ELSE IF savedTheme = "light" \/ savedTheme = "dark"
         THEN savedTheme = "dark"
         ELSE isDark

\* The effect that runs on mount: the saved theme if it is 'light' or 'dark',
\* else the configured appearance if it is 'light' or 'dark', else no change
loadedDark(savedTheme, config, isDark) ==
    IF savedTheme = "light" \/ savedTheme = "dark"
    THEN savedTheme = "dark"
    ELSE IF config = "light" \/ config = "dark"
         THEN config = "dark"
         ELSE isDark

InitTheme ==
    /\ themePhase = "unmounted"
    /\ appearance \in Appearances
    /\ themeStored \in StoredValues
    /\ dark = TRUE
    /\ themeToggledTo = "none"
    /\ themeMounts = 0
    /\ AppIdle
    /\ ProgressIdle
    /\ DebounceIdle
    /\ SuggestIdle
    /\ BuildIdle

ThemeFrame == UNCHANGED <<listVars, searchVars, scriptVars, spyVars, progressVars,
                          debounceVars, suggestVars, buildVars>>

\* The first render of the provider: useState(() => ...)
ThemeRender ==
    /\ themePhase = "unmounted"
    /\ themeMounts < MaxMounts
    /\ themePhase' = "rendered"
    /\ dark' = initialDark(appearance)
    /\ themeMounts' = themeMounts + 1
    /\ UNCHANGED <<appearance, themeStored, themeToggledTo>>
    /\ ThemeFrame

\* useEffect(() => { const savedTheme = localStorage.getItem('theme-preference'); ... })
ThemeLoad ==
    /\ themePhase = "rendered"
    /\ themePhase' = "mounted"
    /\ dark' = loadedDark(themeStored, appearance, dark)
    /\ UNCHANGED <<appearance, themeStored, themeToggledTo, themeMounts>>
    /\ ThemeFrame

\* toggleTheme()
ToggleTheme ==
    /\ themePhase = "mounted"
    /\ LET newDark == ~dark
       IN  /\ dark' = newDark
           /\ themeStored' = themeName(newDark)
           /\ themeToggledTo' = themeName(newDark)
    /\ UNCHANGED <<themePhase, appearance, themeMounts>>
    /\ ThemeFrame

\* The page is left or reloaded; the site may be deployed with another
\* appearance before the next visit
ThemeUnmount ==
    /\ themePhase = "mounted"
    /\ themePhase' = "unmounted"
    /\ appearance' \in Appearances
    /\ UNCHANGED <<themeStored, dark, themeToggledTo, themeMounts>>
    /\ ThemeFrame

NextTheme ==
    \/ ThemeRender
    \/ ThemeLoad
    \/ ToggleTheme
    \/ ThemeUnmount

SpecTheme == InitTheme /\ [][NextTheme]_vars

\* --------------------------------------------------- debounce(func, delay)
\* Largest delay that is explored, in time units.
MaxDelay == 2

\* Last instant of time that is explored.
MaxTime == 5

\* Largest number of calls of the debounced function that is explored.
MaxCalls == 3

\* Number of different arguments the debounced function is called with.
MaxArgs == 2

\* debounce(func, delay) has returned: let timeoutId is undefined
InitDebounce ==
    /\ delay \in 0..MaxDelay
    /\ clock = 0
    /\ timeoutId = 0
    /\ timers = {}
    /\ nextTimerId = 1
    /\ debouncedCalls = <<>>
    /\ funcCalls = <<>>
    /\ AppIdle
    /\ ProgressIdle
    /\ ThemeIdle
    /\ SuggestIdle
    /\ BuildIdle

DebounceFrame == UNCHANGED <<listVars, searchVars, scriptVars, spyVars, progressVars,
                             themeVars, suggestVars, buildVars>>

\* A timer runs as soon as its time has come, before anything else happens
TimerDue == \E t \in timers : t.due <= clock

\* Faulty variant of clearTimeout: the timer is left running.
clearTimeout_Nothing(id, active) == active

\* if (timeoutId) { clearTimeout(timeoutId) }: no timer has the id 0, and
\* clearing a timer that has run does nothing
clearTimeout(id, active) == {t \in active : t.id # id}

\* The function returned by debounce is called with args
DebouncedCall ==
    /\ Len(debouncedCalls) < MaxCalls
    /\ ~TimerDue
    /\ \E args \in 1..MaxArgs :
          /\ timers' = clearTimeout(timeoutId, timers)
                          \cup {[id |-> nextTimerId, due |-> clock + delay, args |-> args]}
          /\ debouncedCalls' = Append(debouncedCalls, [at |-> clock, args |-> args])
    /\ timeoutId' = nextTimerId
    /\ nextTimerId' = nextTimerId + 1
    /\ UNCHANGED <<delay, clock, funcCalls>>
    /\ DebounceFrame

\* The callback given to setTimeout runs: func(...args)
TimerRuns ==
    /\ \E t \in timers :
          /\ t.due <= clock
          /\ \A u \in timers : t.due < u.due \/ (t.due = u.due /\ t.id <= u.id)
          /\ timers' = timers \ {t}
          /\ funcCalls' = Append(funcCalls, [at |-> clock, args |-> t.args])
    /\ UNCHANGED <<delay, clock, timeoutId, nextTimerId, debouncedCalls>>
    /\ DebounceFrame

\* Time passes
Tick ==
    /\ clock < MaxTime
    /\ ~TimerDue
    /\ clock' = clock + 1
    /\ UNCHANGED <<delay, timeoutId, timers, nextTimerId, debouncedCalls, funcCalls>>
    /\ DebounceFrame

NextDebounce ==
    \/ DebouncedCall
    \/ TimerRuns
    \/ Tick

SpecDebounce == InitDebounce /\ [][NextDebounce]_vars

\* --------------------------------- SearchAutocomplete: handleInputChange
\* Largest length of the text of the input that is explored.
MaxQueryLen == 3

\* Largest number of changes of the input that is explored.
MaxInputChanges == 3

QueryChars == {"a", "b"}

QueryTexts == UNION {[1..n -> QueryChars] : n \in 0..MaxQueryLen}

\* The posts of the index: the title and the other searchable text of each
IndexedPosts ==
    << [title |-> <<"a", "b">>, content |-> <<>>],
       [title |-> <<"a", "b", "b">>, content |-> <<>>],
       [title |-> <<>>, content |-> <<"a", "b", "a">>],
       [title |-> <<"b", "a">>, content |-> <<"b", "b">>] >>

\* The text holds the words of the query
Occurs(words, text) ==
    \E i \in 0..(Len(text) - Len(words)) :
        \A j \in 1..Len(words) : text[i + j] = words[j]

\* const { hits } = await index.search(value, { hitsPerPage: 5, ... })
searchHits(value) ==
    LET matches(post) == Occurs(value, post.title) \/ Occurs(value, post.content)
    IN  SelectSeq(IndexedPosts, matches)

\* hits.map((hit) => ({ title: hit.title })).filter((s) => s.title)
suggestionsOf(hits) ==
    LET titled(entry) == entry.title # <<>>
    IN  SelectSeq([i \in 1..Len(hits) |-> [title |-> hits[i].title]], titled)

InitSuggest ==
    /\ query = <<>>
    /\ suggestions = <<>>
    /\ showSuggestions = FALSE
    /\ searchesInFlight = {}
    /\ inputChanges = 0
    /\ AppIdle
    /\ ProgressIdle
    /\ ThemeIdle
    /\ DebounceIdle
    /\ BuildIdle

SuggestFrame == UNCHANGED <<listVars, searchVars, scriptVars, spyVars, progressVars,
                            themeVars, debounceVars, buildVars>>

\* await index.search(value, ...) settles with hits: setSuggestions(suggestions);
\* setShowSuggestions(suggestions.length > 0)
SearchResolves ==
    /\ \E search \in searchesInFlight :
          /\ searchesInFlight' = searchesInFlight \ {search}
          /\ suggestions' = suggestionsOf(searchHits(search.value))
          /\ showSuggestions' = (Len(suggestionsOf(searchHits(search.value))) > 0)
    /\ UNCHANGED <<query, inputChanges>>
    /\ SuggestFrame

\* onChange: handleInputChange(e.target.value) up to the await
HandleInputChange ==
    /\ inputChanges < MaxInputChanges
    /\ \E value \in QueryTexts \ {query} :
          /\ query' = value
          /\ IF Len(value) < 2
             THEN /\ suggestions' = <<>>
                  /\ showSuggestions' = FALSE
                  /\ UNCHANGED searchesInFlight
             ELSE /\ searchesInFlight' = searchesInFlight
                                           \cup {[call |-> inputChanges + 1, value |-> value]}
                  /\ UNCHANGED <<suggestions, showSuggestions>>
    /\ inputChanges' = inputChanges + 1
    /\ SuggestFrame

\* await index.search(value, ...) rejects: catch (error) { console.error(...) }
SearchRejects ==
    /\ \E search \in searchesInFlight :
          searchesInFlight' = searchesInFlight \ {search}
    /\ UNCHANGED <<query, suggestions, showSuggestions, inputChanges>>
    /\ SuggestFrame

\* onFocus={() => suggestions.length > 0 && setShowSuggestions(true)}
FocusInput ==
    /\ Len(suggestions) > 0
    /\ showSuggestions' = TRUE
    /\ UNCHANGED <<query, suggestions, searchesInFlight, inputChanges>>
    /\ SuggestFrame

NextSuggest ==
    \/ SearchResolves
    \/ HandleInputChange
    \/ SearchRejects
    \/ FocusInput

SpecSuggest == InitSuggest /\ [][NextSuggest]_vars

\* ------------------------------------------- getStaticProps: postsToShow
\* Largest number of posts that is explored.
MaxPostCount == 6

\* Largest number of posts per page that is explored.
MaxPerPage == 3

\* Array.prototype.slice(start, end): a negative index counts from the end,
\* and both are cut at the ends of the array
slice(array, start, end) ==
    LET from == IF start < 0 THEN Max(Len(array) + start, 0) ELSE Min(start, Len(array))
        to   == IF end < 0 THEN Max(Len(array) + end, 0) ELSE Min(end, Len(array))
    IN  [i \in 1..Max(to - from, 0) |-> array[from + i]]

\* Math.ceil(totalPosts / config.postsPerPage)
ceilOfQuotient(totalPosts, perPage) ==
    IF totalPosts % perPage = 0
    THEN totalPosts \div perPage
    ELSE (totalPosts \div perPage) + 1

\* config.postsPerPage * (page - 1)
sliceStart(perPage, page) == perPage * (page - 1)

\* Faulty variant of sliceEnd: one post more is taken.
sliceEnd_OneMore(perPage, page) == perPage * page + 1

\* config.postsPerPage * page
sliceEnd(perPage, page) == perPage * page

\* The pages that can be asked for: fallback: true lets /page/[page] be
\* generated for pages after the last one too
BuildPages == 1..(MaxPostCount + 1)

InitBuild ==
    /\ \E count \in 0..MaxPostCount : allPosts = [i \in 1..count |-> i]
    /\ postsPerPage \in 1..MaxPerPage
    /\ staticProps = {}
    /\ AppIdle
    /\ ProgressIdle
    /\ ThemeIdle
    /\ DebounceIdle
    /\ SuggestIdle

BuildFrame == UNCHANGED <<listVars, searchVars, scriptVars, spyVars, progressVars,
                          themeVars, debounceVars, suggestVars>>

\* getStaticProps of /page/[page]
PageStaticProps ==
    /\ \E page \in BuildPages :
          staticProps' = staticProps \cup
              {[page        |-> page,
                postsToShow |-> slice(allPosts, sliceStart(postsPerPage, page),
                                      sliceEnd(postsPerPage, page)),
                showNext    |-> page * postsPerPage < Len(allPosts),
                totalPages  |-> ceilOfQuotient(Len(allPosts), postsPerPage)]}
    /\ UNCHANGED <<allPosts, postsPerPage>>
    /\ BuildFrame

\* getStaticProps of the index page: posts.slice(0, clientConfig.postsPerPage), page: 1
IndexStaticProps ==
    /\ staticProps' = staticProps \cup
          {[page        |-> 1,
            postsToShow |-> slice(allPosts, 0, postsPerPage),
            showNext    |-> Len(allPosts) > postsPerPage,
            totalPages  |-> ceilOfQuotient(Len(allPosts), postsPerPage)]}
    /\ UNCHANGED <<allPosts, postsPerPage>>
    /\ BuildFrame

NextBuild ==
    \/ IndexStaticProps
    \/ PageStaticProps

SpecBuild == InitBuild /\ [][NextBuild]_vars
\* ------------------------------------------------- properties of the markers
\* The markers a, a + 1, ..., b
Run(a, b) == [i \in 1..(b - a + 1) |-> PageMarker(a + i - 1)]

\* The positions of `pages` holding an ellipsis
EllipsisPositions == {i \in 1..Len(pages) : IsEllipsis(pages[i])}

\* The ellipsis at position i stands between two numeric markers that are at
\* least `gap` apart.
EllipsisGapAtLeast(i, gap) ==
    /\ 1 < i
    /\ i < Len(pages)
    /\ IsPage(pages[i - 1])
    /\ IsPage(pages[i + 1])
    /\ pages[i + 1].page - pages[i - 1].page >= gap

\* C1 as stated: every ellipsis stands between two numeric markers a and b
\* with at least two pages hidden between them (b - a >= 3); an ellipsis never
\* stands for exactly one hidden page.
C1_EllipsisNeverHidesOnePage ==
    \A i \in EllipsisPositions : EllipsisGapAtLeast(i, 3)

\* C1 as amended: every ellipsis stands between two numeric markers a and b
\* with at least one page hidden between them (b - a >= 2): the checks
\* startPage > 2 and endPage < totalPages - 1 keep out the ellipsis that would
\* hide no page, while a single hidden page is still shown as an ellipsis.
C1_EllipsisHidesAtLeastOnePage ==
    /\ \A i \in EllipsisPositions : EllipsisGapAtLeast(i, 2)
    /\ (startPage = 2 => \A i \in EllipsisPositions : i > 2)
    /\ (endPage = totalPages - 1 => \A i \in EllipsisPositions : i < Len(pages) - 1)

\* An ellipsis that hides exactly one page is rendered: 1, '...', 3
C1_Witness ==
    \E i \in EllipsisPositions :
        /\ EllipsisGapAtLeast(i, 2)
        /\ pages[i + 1].page - pages[i - 1].page = 2

\* C2 as stated: on page 5 of 10 the markers are 1, '...', 3, 4, 5, 6, 7, '...', 10
C2_Page5Of10_Narrowed ==
    (currentPage = 5 /\ totalPages = 10)
        => pages = <<PageMarker(1), Ellipsis>> \o Run(3, 7) \o <<Ellipsis, PageMarker(10)>>

\* C2 as amended: on page 5 of 10 the window is the full seven pages 2..8
\* centred on 5, and the markers are 1, 2, 3, 4, 5, 6, 7, 8, '...', 10
C2_Page5Of10 ==
    (currentPage = 5 /\ totalPages = 10)
        => /\ pages = Run(1, 8) \o <<Ellipsis, PageMarker(10)>>
           /\ startPage = 2
           /\ endPage = 8

\* Page 5 of 10 has been rendered
C2_Witness == currentPage = 5 /\ totalPages = 10 /\ Len(pages) = 10

\* The algorithm of the specification (section 4.1, steps 1 to 5), written
\* from its text
ReferenceWindow(cur, total, maxVisible) ==
    LET half == maxVisible \div 2
        s0   == Max(1, cur - half)
        e    == Min(total, s0 + maxVisible - 1)
        s    == IF (e - s0) + 1 < maxVisible THEN Max(1, (e - maxVisible) + 1) ELSE s0
    IN  (IF s > 1 THEN <<PageMarker(1)>> ELSE <<>>)
            \o (IF s > 1 /\ s > 2 THEN <<Ellipsis>> ELSE <<>>)
            \o Run(s, e)
            \o (IF e < total /\ e < total - 1 THEN <<Ellipsis>> ELSE <<>>)
            \o (IF e < total THEN <<PageMarker(total)>> ELSE <<>>)

\* C3: for every valid (currentPage, totalPages) the markers of generatePages
\* are those of the reference algorithm with maxVisible = 7
C3_MatchesReference ==
    pages = ReferenceWindow(currentPage, totalPages, 7)

\* A case in which every step of the algorithm acts: the window is slid left
\* at the upper bound and a leading ellipsis is emitted
C3_Witness ==
    /\ endPage = totalPages
    /\ startPage > 2
    /\ currentPage - 3 > startPage

\* C4: with totalPages <= 7 the markers are exactly 1, 2, ..., totalPages
C4_SmallTotalIsPlainRun ==
    totalPages <= 7
        => /\ pages = Run(1, totalPages)
           /\ EllipsisPositions = {}

\* The largest such case, seen from its last page
C4_Witness == totalPages = 7 /\ currentPage = 7 /\ Len(pages) = 7

\* C5: the first marker is page 1 and the last marker is page totalPages
C5_FirstAndLastShown ==
    /\ Len(pages) >= 1
    /\ pages[1] = PageMarker(1)
    /\ pages[Len(pages)] = PageMarker(totalPages)

\* Both pages lie outside the window and are added around it
C5_Witness ==
    /\ startPage > 1
    /\ endPage < totalPages
    /\ pages[1] = PageMarker(1)
    /\ pages[Len(pages)] = PageMarker(totalPages)

\* C6: every marker is the ellipsis or a page number in 1..totalPages, and no
\* page number occurs twice
C6_MarkersInRangeNoDuplicates ==
    /\ \A i \in 1..Len(pages) :
          \/ pages[i] = Ellipsis
          \/ /\ IsPage(pages[i])
             /\ pages[i].page \in 1..totalPages
    /\ \A i, j \in 1..Len(pages) :
          (i # j /\ IsPage(pages[i]) /\ IsPage(pages[j])) => pages[i].page # pages[j].page

\* Page 1 and the last page are added next to a window that starts at 2 and
\* ends at totalPages - 1
C6_Witness ==
    /\ startPage = 2
    /\ endPage = totalPages - 1
    /\ Len(pages) = totalPages

\* C7: the page numbers are strictly ascending, and two page numbers with no
\* ellipsis between them differ by exactly 1
C7_AscendingContiguous ==
    /\ \A i, j \in 1..Len(pages) :
          (i < j /\ IsPage(pages[i]) /\ IsPage(pages[j])) => pages[i].page < pages[j].page
    /\ \A i \in 1..(Len(pages) - 1) :
          (IsPage(pages[i]) /\ IsPage(pages[i + 1])) => pages[i + 1].page = pages[i].page + 1

\* Page 1 is followed directly by the window, which starts at 2
C7_Witness ==
    /\ startPage = 2
    /\ Len(pages) >= 2
    /\ pages[1] = PageMarker(1)
    /\ pages[2] = PageMarker(2)

\* C8: no two ellipses are consecutive and there are at most two of them
C8_EllipsesApart ==
    /\ \A i \in 1..(Len(pages) - 1) : ~(IsEllipsis(pages[i]) /\ IsEllipsis(pages[i + 1]))
    /\ Cardinality(EllipsisPositions) <= 2

\* Both ellipses are rendered
C8_Witness == Cardinality(EllipsisPositions) = 2

\* The positions of `pages` that hold the window startPage..endPage
WindowInPages ==
    \E k \in 0..Len(pages) :
        /\ k + (endPage - startPage + 1) <= Len(pages)
        /\ \A n \in startPage..endPage : pages[k + (n - startPage) + 1] = PageMarker(n)

\* C9: the current page lies in the window startPage..endPage, which is
\* rendered as one run; the window is currentPage - 3 .. currentPage + 3 when
\* that fits in 1..totalPages, and otherwise it touches an edge
C9_CurrentPageCentred ==
    /\ startPage <= currentPage
    /\ currentPage <= endPage
    /\ WindowInPages
    /\ IF currentPage - 3 >= 1 /\ currentPage + 3 <= totalPages
       THEN startPage = currentPage - 3 /\ endPage = currentPage + 3
       ELSE startPage = 1 \/ endPage = totalPages

\* A centred window away from both edges
C9_Witness ==
    /\ currentPage - 3 > 2
    /\ currentPage + 3 < totalPages - 1
    /\ startPage = currentPage - 3
    /\ endPage = currentPage + 3

\* C10 as stated: with totalPages > 7 a current page within 3 of the left edge
\* gives 1..7, '...', totalPages, one within 3 of the right edge gives 1, '...',
\* totalPages - 6 .. totalPages, and the window always has min(totalPages, 7)
\* pages
C10_EdgeClampAlwaysEllipsis ==
    /\ (totalPages > 7 /\ currentPage - 3 <= 1)
          => pages = Run(1, 7) \o <<Ellipsis, PageMarker(totalPages)>>
    /\ (totalPages > 7 /\ currentPage + 3 >= totalPages)
          => pages = <<PageMarker(1), Ellipsis>> \o Run(totalPages - 6, totalPages)
    /\ endPage - startPage + 1 = Min(totalPages, 7)

\* C10 as amended: the same, except that the ellipsis is there only when it
\* hides a page (totalPages > 8); with totalPages = 8 the markers are 1..8
C10_EdgeClampFullWindow ==
    /\ (totalPages > 7 /\ currentPage - 3 <= 1)
          => /\ startPage = 1
             /\ endPage = 7
             /\ pages = Run(1, 7)
                          \o (IF totalPages > 8 THEN <<Ellipsis>> ELSE <<>>)
                          \o <<PageMarker(totalPages)>>
    /\ (totalPages > 7 /\ currentPage + 3 >= totalPages)
          => /\ startPage = totalPages - 6
             /\ endPage = totalPages
             /\ pages = <<PageMarker(1)>>
                          \o (IF totalPages > 8 THEN <<Ellipsis>> ELSE <<>>)
                          \o Run(totalPages - 6, totalPages)
    /\ endPage - startPage + 1 = Min(totalPages, 7)

\* The last page of a long list: the window has been slid left to full size
C10_Witness ==
    /\ totalPages > 8
    /\ currentPage = totalPages
    /\ startPage = totalPages - 6
    /\ IsEllipsis(pages[2])

\* ------------------------------------------------ properties of the controls
\* The arguments of the page-window computation are out of range
InvalidWindowInput ==
    LET total == calculatedTotalPages(totalPages, showNext, currentPage)
    IN  total < 1 \/ currentPage < 1 \/ currentPage > total

\* C11: when totalPages < 1 or currentPage is outside 1..totalPages, the
\* page-window computation fails with an InvalidRangeError instead of
\* returning markers
C11_InvalidInputRejected ==
    InvalidWindowInput => (error = "InvalidRangeError" /\ pages = <<>>)

\* The text is a decimal integer: an optional minus sign and digits only
IsIntegerText(text) ==
    LET digits == IF text # <<>> /\ Head(text) = "-" THEN Tail(text) ELSE text
    IN  /\ digits # <<>>
        /\ \A i \in 1..Len(digits) : IsDigit(digits[i])

\* The integer a decimal text stands for
RECURSIVE NaturalOf(_)
NaturalOf(digits) ==
    IF digits = <<>> THEN 0
    ELSE 10 * NaturalOf(SubSeq(digits, 1, Len(digits) - 1)) + DigitValue(digits[Len(digits)])

IntegerOf(text) ==
    IF Head(text) = "-" THEN 0 - NaturalOf(Tail(text)) ELSE NaturalOf(text)

\* C12: a jump to a page number outside 1..totalPages is rejected: the page
\* and the location stay as they are (no clamping, no target); a jump to a
\* page number inside the range leads to exactly that page
C12_GoToChecksBounds ==
    [][(HandleJump /\ IsIntegerText(jumpPage))
          => IF IntegerOf(jumpPage) \in 1..totalPages
             THEN /\ currentPage' = IntegerOf(jumpPage)
                  /\ location' = hrefOf(IntegerOf(jumpPage))
             ELSE /\ currentPage' = currentPage
                  /\ location' = location
                  /\ pages' = pages]_vars

\* Page 0 is asked for on a page of a blog with five pages
C12_Witness ==
    /\ totalPages = 5
    /\ jumpPage = <<"0">>
    /\ ~jumpAccepted(jumpPage, totalPages)

\* C13: a jump whose text is not an integer leaves the page and the location
\* as they are
C13_NonIntegerRejected ==
    [][(HandleJump /\ ~IsIntegerText(jumpPage))
          => /\ currentPage' = currentPage
             /\ location' = location]_vars

\* C14: currentPage stays within 1..totalPages
C14_CurrentPageInRange ==
    /\ totalPages >= 1
    /\ 1 <= currentPage
    /\ currentPage <= totalPages
    /\ location = hrefOf(currentPage)

\* The last page, reached by a navigation, with a jump to the page after it
\* typed in
C14_Witness ==
    /\ totalPages >= 2
    /\ currentPage = totalPages
    /\ IsIntegerText(jumpPage)
    /\ IntegerOf(jumpPage) = totalPages + 1

\* C15: a next link is offered exactly when currentPage < totalPages, and it
\* leads to currentPage + 1
C15_NextOnlyBeforeLastPage ==
    /\ [](nextOffered <=> currentPage < totalPages)
    /\ [][ClickNext
            => /\ currentPage < totalPages
               /\ currentPage' = currentPage + 1
               /\ location' = PageRoute(currentPage + 1)]_vars

\* The last page of several: no next link
C15_Witness ==
    /\ totalPages >= 2
    /\ currentPage = totalPages
    /\ ~nextOffered

\* C16: a previous link is offered exactly when currentPage > 1, and it leads
\* to currentPage - 1
C16_PreviousOnlyAfterFirstPage ==
    /\ [](previousOffered <=> currentPage > 1)
    /\ [][ClickPrevious
            => /\ currentPage > 1
               /\ currentPage' = currentPage - 1
               /\ location' = hrefOf(currentPage - 1)]_vars

\* The first page of several: no previous link
C16_Witness ==
    /\ totalPages >= 2
    /\ currentPage = 1
    /\ ~previousOffered

\* C26: on a page within 1..totalPages every navigation (a numeric marker,
\* previous, next, an accepted jump) leads to the index page or to a path
\* that getStaticPaths generates, never to /page/1; the generated paths are
\* /page/2 .. /page/totalPages
C26_TargetsAreGeneratedPaths ==
    /\ [](staticPaths(totalPages) = {PageRoute(n) : n \in 2..totalPages})
    /\ [](location # PageRoute(1))
    /\ [][location' \in {IndexRoute} \cup staticPaths(totalPages')]_vars

\* Page 2 of at least 3: previous and marker 1 lead to the index page, next
\* to /page/3, and the jump input holds an accepted 1
C26_Witness ==
    /\ location = PageRoute(2)
    /\ previousOffered
    /\ nextOffered
    /\ \E i \in 1..Len(pages) : pages[i] = PageMarker(1)
    /\ jumpAccepted(jumpPage, calculatedTotalPages(totalPages, showNext, currentPage))
    /\ parseInt(jumpPage).value = 1

\* The pages of the numeric markers, in order
MarkerPages == [i \in 1..Len(SelectSeq(pages, IsPage)) |-> SelectSeq(pages, IsPage)[i].page]

\* C27: for totalPages >= 1 and currentPage outside 1..totalPages no error is
\* raised, every numeric marker is a page in 1..totalPages, no page has two
\* markers, and currentPage has none
C27_OutOfRangeStaysInBounds ==
    (totalPages >= 1 /\ (currentPage < 1 \/ currentPage > totalPages))
        => /\ error = NoError
           /\ \A i \in 1..Len(MarkerPages) : MarkerPages[i] \in 1..totalPages
           /\ \A i, j \in 1..Len(MarkerPages) : i # j => MarkerPages[i] # MarkerPages[j]
           /\ \A i \in 1..Len(MarkerPages) : MarkerPages[i] # currentPage

\* A page after the last one of a blog with more pages than the window holds
C27_Witness ==
    /\ totalPages > maxVisiblePages
    /\ currentPage > totalPages
    /\ Len(MarkerPages) = maxVisiblePages + 1
    /\ \E i \in 1..Len(pages) : IsEllipsis(pages[i])

\* ------------------------------------------- properties of the search pages
\* The page numbers of pagesArray as they are shown ({page + 1})
SearchMarkers == [i \in 1..Len(searchPages) |-> PageMarker(searchPages[i] + 1)]

\* The window of the algorithm of the specification (section 4.1, steps 1 to 4)
ReferenceBounds(cur, total, maxVisible) ==
    LET half == maxVisible \div 2
        s0   == Max(1, cur - half)
        e    == Min(total, s0 + maxVisible - 1)
    IN  [s |-> IF (e - s0) + 1 < maxVisible THEN Max(1, (e - maxVisible) + 1) ELSE s0,
         e |-> e]

\* C17 as stated: for the same 1-indexed current page, number of pages and
\* window size (5), the search pagination shows the markers of the list
\* algorithm, first page, last page and ellipses included
C17_SearchSameAsList ==
    SearchMarkers = ReferenceWindow(currentRefinement + 1, nbPages, 5)

\* C17 as amended: the search pagination shows only the window of that
\* algorithm (of at most 5 pages) and neither first page, last page nor
\* ellipsis; its markers are those of the list algorithm exactly when
\* nbPages <= 5, and nothing at all is shown when nbPages <= 1
C17_SearchWindowOnly ==
    LET w == ReferenceBounds(currentRefinement + 1, nbPages, 5)
    IN  /\ SearchMarkers = Run(w.s, w.e)
        /\ Len(searchPages) = Min(nbPages, 5)
        /\ (SearchMarkers = ReferenceWindow(currentRefinement + 1, nbPages, 5))
              <=> nbPages <= 5
        /\ searchShown <=> nbPages >= 2

\* The fourth of ten result pages: the window 2..6 without 1, '...' and 10
C17_Witness ==
    /\ nbPages = 10
    /\ currentRefinement = 3
    /\ SearchMarkers = Run(2, 6)

\* The buttons of the search pagination: previous and next are enabled
\* exactly off the first and off the last page and move by one page
SearchPreviousNextInRange ==
    /\ [](searchShown => currentRefinement \in 0..(nbPages - 1))
    /\ [][SearchClickNext => (currentRefinement + 1 < nbPages
                                /\ currentRefinement' = currentRefinement + 1)]_vars
    /\ [][SearchClickPrevious => (currentRefinement > 0
                                    /\ currentRefinement' = currentRefinement - 1)]_vars

\* ---------------------------------------- properties of the indexing script
\* The calls that change the index
MutatingCalls == {"clearObjects", "setSettings", "saveObjects"}

CallsMade == {indexCalls[i] : i \in 1..Len(indexCalls)}

\* C19: in a dry run none of clearObjects, setSettings and saveObjects is
\* called, with or without --clear
C19_DryRunMutatesNothing ==
    scriptArgs.dryRun => CallsMade \cap MutatingCalls = {}

\* A dry run with --clear that has fetched posts and has ended
C19_Witness ==
    /\ scriptArgs.dryRun
    /\ scriptArgs.shouldClear
    /\ ~scriptArgs.showStats
    /\ Len(scriptPosts) > 0
    /\ exitCode = "0"

\* The place of a call in the order clearObjects, setSettings, saveObjects
MutationRank(call) ==
    IF call = "clearObjects" THEN 1
    ELSE IF call = "setSettings" THEN 2
    ELSE 3

\* C25: clearObjects is called only with --clear and after posts were
\* fetched; a run that fetched no posts ends with exit code 1 and without a
\* call on the index; the calls that change the index are made at most once
\* each, in the order clearObjects, setSettings, saveObjects, none of them
\* skipped except clearObjects without --clear
C25_ClearOnlyAfterFetch ==
    /\ "clearObjects" \in CallsMade => (Len(scriptPosts) > 0 /\ scriptArgs.shouldClear)
    /\ (scriptPc = "exited" /\ ~scriptArgs.showStats /\ Len(scriptPosts) = 0)
          => (exitCode = "1" /\ indexCalls = <<>>)
    /\ \A i, j \in 1..Len(indexCalls) :
          (i < j /\ indexCalls[i] \in MutatingCalls /\ indexCalls[j] \in MutatingCalls)
              => MutationRank(indexCalls[i]) < MutationRank(indexCalls[j])
    /\ "saveObjects" \in CallsMade => "setSettings" \in CallsMade
    /\ ("setSettings" \in CallsMade /\ scriptArgs.shouldClear)
          => "clearObjects" \in CallsMade

\* A run with --clear that cleared the index, indexed the posts and ended
C25_Witness ==
    /\ scriptArgs.shouldClear
    /\ indexCalls = <<"clearObjects", "setSettings", "saveObjects", "waitTask">>
    /\ exitCode = "0"

\* ------------------------------------------------ properties of scroll spy
\* The positions of the intersecting entries of a batch
IntersectingIn(entries) == {i \in 1..Len(entries) : entries[i].isIntersecting}

BurstEnds(calls, wait) ==
    {i \in 1..Len(calls) : i = Len(calls) \/ calls[i + 1].at - calls[i].at >= wait}

\* One call of func for each burst that ended delay or more ago, at delay
\* after the last call of the burst and with its arguments
ExpectedFuncCalls(calls, wait, time) ==
    LET ended == {i \in BurstEnds(calls, wait) : calls[i].at + wait <= time}
        upTo[i \in 0..Len(calls)] ==
            IF i = 0 THEN <<>>
            ELSE IF i \in ended
                 THEN Append(upTo[i - 1], [at |-> calls[i].at + wait, args |-> calls[i].args])
                 ELSE upTo[i - 1]
    IN  upTo[Len(calls)]

IsPrefixOf(short, long) ==
    /\ Len(short) <= Len(long)
    /\ \A i \in 1..Len(short) : short[i] = long[i]

C24_StaleResponseIgnored ==
    [][\A search \in searchesInFlight :
          (searchesInFlight' = searchesInFlight \ {search} /\ search.call < inputChanges)
              => (suggestions' = suggestions /\ showSuggestions' = showSuggestions)]_vars

\* ------------------------------------------- properties of the page slices
PostsOf(props) == {props.postsToShow[i] : i \in 1..Len(props.postsToShow)}

\* The posts of the generated pages 1..last, in the order of the pages
SlicesUpTo(last) ==
    LET upTo[n \in 0..last] ==
            IF n = 0 THEN <<>>
            ELSE upTo[n - 1] \o (CHOOSE props \in staticProps : props.page = n).postsToShow
    IN  upTo[last]

\* C28: for postsPerPage >= 1 the slices of different pages have no post in
\* common, a page in 1..totalPages has between 1 and postsPerPage posts, a
\* page after totalPages has none, and the slices of the pages 1..totalPages
\* in the order of the pages are the list of the posts;
\* totalPages = ceil(totalPosts / postsPerPage)
C28_SlicesPartitionPosts ==
    LET total == ceilOfQuotient(Len(allPosts), postsPerPage)
    IN  /\ total * postsPerPage >= Len(allPosts)
        /\ (total - 1) * postsPerPage < Len(allPosts) \/ Len(allPosts) = 0
        /\ \A props \in staticProps :
              /\ props.totalPages = total
              /\ props.page \in 1..total
                    => (Len(props.postsToShow) >= 1 /\ Len(props.postsToShow) <= postsPerPage)
              /\ props.page > total => props.postsToShow = <<>>
        /\ \A a, b \in staticProps : a.page # b.page => PostsOf(a) \cap PostsOf(b) = {}
        /\ \A a, b \in staticProps : a.page = b.page => a.postsToShow = b.postsToShow
        /\ (\A n \in 1..total : \E props \in staticProps : props.page = n)
              => SlicesUpTo(total) = allPosts

\* Every page of a blog of at least three pages was generated, the last one
\* is not full, and so was a page after the last one
C28_Witness ==
    LET total == ceilOfQuotient(Len(allPosts), postsPerPage)
    IN  /\ total >= 3
        /\ Len(allPosts) % postsPerPage # 0
        /\ \A n \in 1..(total + 1) : \E props \in staticProps : props.page = n
        /\ SlicesUpTo(total) = allPosts

=============================================================================
